---- MODULE Spec2Model ----
(***************************************************************************)
(* State-machine model of the TabPFN API wrapper: the credential vault     *)
(* (core/security.py), the registration flow (services/auth_service.py,    *)
(* api/auth.py), the authentication dependency (get_current_user), the     *)
(* downstream bridge (tabpfn_interface/client.py) and the model endpoints  *)
(* (api/models.py, schemas/model.py).  Every request is one atomic action: *)
(* the handlers are coroutines that run to completion on one session.      *)
(* SpecConcurrent splits fit and predict at the await of the dependency,   *)
(* so that requests in flight interleave.                                  *)
(*                                                                         *)
(* services/model_service.py and models/user.py are not part of the        *)
(* sources at hand; train_new_model and get_predictions follow section 4.5 *)
(* of the design document and the messages the tests expect.               *)
(***************************************************************************)
EXTENDS Integers, Sequences, FiniteSets, TLC

VARIABLES
    proc,        \* "down" | "up" | "crashed": the server process
    SECRET_KEY,  \* settings.SECRET_KEY the process was configured with
    fernet,      \* the module-level cipher of core/security.py (its key)
    users,       \* table users: sequence of User rows, in insertion order
    models,      \* table model_metadata: sequence of ModelMetadata rows
    request,     \* the last request received
    resp,        \* the response to it, with what the request did
    access_token,\* the token the client library holds (set_access_token)
    tasks,       \* the requests in flight: coroutines suspended at an await
    session      \* what get_db did with the session of the last request

vars ==
    <<proc, SECRET_KEY, fernet, users, models, request, resp, access_token, tasks,
      session>>

-----------------------------------------------------------------------------
(* Bounds of the model *)

MaxUsers == 2
MaxModels == 1
MaxRows == 2
MaxCols == 2
MaxPhrases == 2
MaxListed == 2
MaxTasks == 2

None == "None"

(* HTTP status codes used by the handlers *)
HTTP_200_OK == 200
HTTP_201_CREATED == 201
HTTP_400_BAD_REQUEST == 400
HTTP_401_UNAUTHORIZED == 401
HTTP_403_FORBIDDEN == 403
HTTP_404_NOT_FOUND == 404
HTTP_422_UNPROCESSABLE_ENTITY == 422
HTTP_500_INTERNAL_SERVER_ERROR == 500
HTTP_503_SERVICE_UNAVAILABLE == 503

(* _get_fernet_key: the number of bytes of SECRET_KEY the cipher key uses *)
FernetKeyBytes == 32

-----------------------------------------------------------------------------
(* Input domains *)

Tokens == {"tok-A", "tok-B"}            \* third-party (TabPFN) secrets
KeyOrder == <<"K1", "K2", "K3">>        \* values secrets.token_urlsafe can return
Keys == {KeyOrder[i] : i \in DOMAIN KeyOrder}
Salts == {"s1"}                         \* bcrypt salts
Handles == {"h1"}                       \* train_set_uid values the remote returns
UuidOrder == <<"u1", "u2", "u3", "u4">>      \* values uuid.uuid4 can return
UUIDs == {UuidOrder[i] : i \in DOMAIN UuidOrder}

(* A master secret: `head` names its first min(len, 32) bytes, `tail` the    *)
(* bytes after the 32nd.                                                    *)
MasterSecrets ==
    { [head |-> "a", len |-> 32, tail |-> ""],
      [head |-> "a", len |-> 40, tail |-> "x"],
      [head |-> "b", len |-> 32, tail |-> ""],
      [head |-> "a", len |-> 16, tail |-> ""] }


-----------------------------------------------------------------------------
(* Error and log messages.  A message is a sequence of phrases; a phrase    *)
(* is one of the keywords the code searches for, written either exactly in  *)
(* lower case (lower = TRUE) or with some capital letter (lower = FALSE).   *)
(* "boom" stands for text that holds none of the keywords.                  *)

AuthKeywords == {"authentication failed", "invalid token", "unauthorized", "401"}
LimitKeywords == {"usage limit", "rate limit", "quota exceeded", "too many requests", "429"}
ConnectionKeywords ==
    {"connection error", "connection refused", "timeout", "network is unreachable",
     "dns lookup failed", "service unavailable", "503"}

Phrase(kw, lower) == [kw |-> kw, lower |-> lower]

(* str.lower() *)
Lower(msg) == [i \in DOMAIN msg |-> Phrase(msg[i].kw, TRUE)]

(* `kw in msg`: case-sensitive substring search *)
Contains(msg, kw) == \E i \in DOMAIN msg : msg[i].kw = kw /\ msg[i].lower

-----------------------------------------------------------------------------
(* core/security.py: the credential vault *)

(* the bcrypt digest of a key under a salt *)
Digest(plain_api_key, salt) == <<"bcrypt", salt, plain_api_key>>

(* a column that keeps the key as it is *)
get_api_key_hash_plain(plain_api_key, salt) ==
    [salt |-> salt, digest |-> <<"plain", salt, plain_api_key>>]

(* pwd_context.hash: a fresh salt and the digest under it *)
get_api_key_hash(plain_api_key, salt) ==
    [salt |-> salt, digest |-> Digest(plain_api_key, salt)]

(* a verification that looks at the stored hash alone *)
verify_api_key_any(plain_api_key, hashed_api_key) ==
    hashed_api_key.digest[2] = hashed_api_key.salt

(* pwd_context.verify: recompute the digest under the stored salt *)
verify_api_key(plain_api_key, hashed_api_key) ==
    Digest(plain_api_key, hashed_api_key.salt) = hashed_api_key.digest

(* a derivation that accepts a secret of any length *)
_get_fernet_key_any_length(secret) == [exc |-> None, key |-> secret.head]

(* the first 32 bytes of SECRET_KEY, or ValueError when it is shorter *)
_get_fernet_key(secret) ==
    IF secret.len < FernetKeyBytes
    THEN [exc |-> "ValueError", key |-> None]
    ELSE [exc |-> None, key |-> secret.head]

(* a cipher that encrypts one fixed text *)
encrypt_token_fixed(token, fkey) == [key |-> fkey, plaintext |-> "tok-A"]

(* Fernet.encrypt: the ciphertext is bound to the key that made it *)
encrypt_token(token, fkey) == [key |-> fkey, plaintext |-> token]

(* a decryption that does not verify the key *)
decrypt_token_any_key(encrypted_token, fkey) ==
    [exc |-> None, value |-> encrypted_token.plaintext]

(* Fernet.decrypt: InvalidToken unless the key is the one that encrypted *)
decrypt_token(encrypted_token, fkey) ==
    IF encrypted_token.key = fkey
    THEN [exc |-> None, value |-> encrypted_token.plaintext]
    ELSE [exc |-> "InvalidToken", value |-> None]

-----------------------------------------------------------------------------
(* A remote call made by a request: the function of the client library, the *)
(* access token in effect, the train_set_uid passed and the                  *)
(* remote service's answer.                                                 *)
Call(fn, token, uid, outcome) ==
    [fn |-> fn, token |-> token, uid |-> uid, outcome |-> outcome]

(* What the remote service answers: success, or an exception with a message *)
Ok(value) == [ok |-> TRUE, value |-> value, msg |-> <<>>]
Raises(msg) == [ok |-> FALSE, value |-> None, msg |-> msg]

-----------------------------------------------------------------------------
(* tabpfn_interface/client.py: the downstream bridge *)

(* a classification that looks for a usage limit before anything else *)
Classify_limit_first(error_message) ==
    IF \E k \in LimitKeywords : Contains(error_message, k) THEN "ValidButLimited"
    ELSE IF \E k \in AuthKeywords : Contains(error_message, k) THEN "AuthInvalid"
    ELSE IF \E k \in ConnectionKeywords : Contains(error_message, k) THEN "Unreachable"
    ELSE "UnknownFailure"

(* the class the keyword tables give a lowered message *)
Classify(error_message) ==
    IF \E k \in AuthKeywords : Contains(error_message, k) THEN "AuthInvalid"
    ELSE IF \E k \in LimitKeywords : Contains(error_message, k) THEN "ValidButLimited"
    ELSE IF \E k \in ConnectionKeywords : Contains(error_message, k) THEN "Unreachable"
    ELSE "UnknownFailure"

(* a classification of the text as it is, not lowered *)
ErrorClass_as_written(e) == Classify(e)

(* the class of an exception: `error_message = str(e).lower()`, then the    *)
(* keyword tables                                                           *)
ErrorClass(e) == Classify(Lower(e))

(* a verification that accepts only a call that succeeds *)
verify_tabpfn_token_strict(outcome) == outcome.ok

(* verify_tabpfn_token: True when get_api_usage succeeds or its failure is  *)
(* a usage limit; every exception is caught, none is raised.                *)
verify_tabpfn_token(outcome) ==
    IF outcome.ok THEN TRUE
    ELSE ErrorClass(outcome.msg) = "ValidButLimited"

(* a client that calls the remote service with the token already held *)
set_access_token_skipped(held, tabpfn_token) == held

(* tabpfn_client.set_access_token, called by fit_model and predict_model   *)
(* before the remote call: the library's process-wide token afterwards     *)
set_access_token(held, tabpfn_token) == tabpfn_token

(* fit_model: the train_set_uid, or TabPFNInterfaceError carrying the text  *)
(* of the client's exception; an empty or non-string uid is an error too.   *)
fit_model(outcome) ==
    IF outcome.ok /\ outcome.value # ""
    THEN [exc |-> None, value |-> outcome.value, msg |-> <<>>]
    ELSE [exc |-> "TabPFNInterfaceError", value |-> None,
          msg |-> <<Phrase("boom", FALSE)>> \o outcome.msg]

(* predict_model: the predictions, or TabPFNInterfaceError with the text *)
predict_model(outcome) ==
    IF outcome.ok
    THEN [exc |-> None, value |-> outcome.value, msg |-> <<>>]
    ELSE [exc |-> "TabPFNInterfaceError", value |-> None,
          msg |-> <<Phrase("boom", FALSE)>> \o outcome.msg]

-----------------------------------------------------------------------------
(* models/user.py: a row of table users *)
User(id, hashed_api_key, encrypted_tabpfn_token) ==
    [id |-> id, hashed_api_key |-> hashed_api_key,
     encrypted_tabpfn_token |-> encrypted_tabpfn_token]

(* services/auth_service.py: setup_user.  Its `except TabPFNConnectionError` *)
(* names a class client.py neither defines nor raises, so no path reaches   *)
(* AuthServiceDownstreamUnavailableError.  `fault` names the step that      *)
(* raises, if any; the result tells the exception, the table afterwards,    *)
(* the key returned and the steps taken, in order.                          *)
(* a setup that keeps one row and writes every registration over it *)
setup_user_one_row(db_users, tabpfn_token, outcome, plain_api_key, salt, fkey, fault) ==
    [exc |-> None,
     users |-> <<User(1, get_api_key_hash(plain_api_key, salt),
                      encrypt_token(tabpfn_token, fkey))>>,
     ret |-> plain_api_key,
     trace |-> <<"verify", "generate", "hash", "encrypt", "add", "commit",
                 "refresh", "return">>]

setup_user(db_users, tabpfn_token, outcome, plain_api_key, salt, fkey, fault) ==
    LET is_valid == verify_tabpfn_token(outcome)
        hashed_key == get_api_key_hash(plain_api_key, salt)
        encrypted_token == encrypt_token(tabpfn_token, fkey)
        db_user == User(Len(db_users) + 1, hashed_key, encrypted_token)
    IN  IF ~is_valid
        THEN [exc |-> "InvalidTabPFNTokenError", users |-> db_users, ret |-> None,
              trace |-> <<"verify">>]
        ELSE IF fault = "generate"
        THEN [exc |-> "AuthServiceError", users |-> db_users, ret |-> None,
              trace |-> <<"verify", "rollback">>]
        ELSE IF fault = "hash"
        THEN [exc |-> "AuthServiceError", users |-> db_users, ret |-> None,
              trace |-> <<"verify", "generate", "rollback">>]
        ELSE IF fault = "encrypt"
        THEN [exc |-> "AuthServiceError", users |-> db_users, ret |-> None,
              trace |-> <<"verify", "generate", "hash", "rollback">>]
        ELSE IF fault = "add"
        THEN [exc |-> "AuthServiceError", users |-> db_users, ret |-> None,
              trace |-> <<"verify", "generate", "hash", "encrypt", "rollback">>]
        ELSE IF fault = "commit"
        THEN [exc |-> "AuthServiceError", users |-> db_users, ret |-> None,
              trace |-> <<"verify", "generate", "hash", "encrypt", "add", "rollback">>]
        ELSE IF fault = "refresh"
        THEN [exc |-> "AuthServiceError", users |-> Append(db_users, db_user),
              ret |-> None,
              trace |-> <<"verify", "generate", "hash", "encrypt", "add", "commit",
                          "rollback">>]
        ELSE [exc |-> None, users |-> Append(db_users, db_user), ret |-> plain_api_key,
              trace |-> <<"verify", "generate", "hash", "encrypt", "add", "commit",
                          "refresh", "return">>]

(* The response of a request and what the request did: `detail` is the     *)
(* body's detail as a sequence of words, `remote` the remote calls made.    *)
Response(op, status, detail, caller, api_key, internal_model_id, remote, trace) ==
    [op |-> op, status |-> status, detail |-> detail, caller |-> caller,
     api_key |-> api_key, internal_model_id |-> internal_model_id,
     remote |-> remote, trace |-> trace]

NoResponse == Response("none", 0, <<>>, 0, None, None, <<>>, <<>>)

(* a route that answers AuthServiceError as an unavailable service *)
register_user_503(r, tabpfn_token, outcome) ==
    LET remote == <<Call("get_api_usage", tabpfn_token, None, outcome)>>
    IN  IF r.exc = None
        THEN Response("register", HTTP_201_CREATED, <<>>, 0, r.ret, None, remote, r.trace)
        ELSE IF r.exc = "InvalidTabPFNTokenError"
        THEN Response("register", HTTP_400_BAD_REQUEST,
                      <<"The provided TabPFN token could not be verified as valid.">>,
                      0, None, None, remote, r.trace)
        ELSE Response("register", HTTP_503_SERVICE_UNAVAILABLE,
                      <<"The TabPFN service is currently unavailable.">>,
                      0, None, None, remote, r.trace)

(* a route that answers every failure of setup_user alike *)
register_user_one_error(r, tabpfn_token, outcome) ==
    LET remote == <<Call("get_api_usage", tabpfn_token, None, outcome)>>
    IN  IF r.exc = None
        THEN Response("register", HTTP_201_CREATED, <<>>, 0, r.ret, None, remote, r.trace)
        ELSE Response("register", HTTP_500_INTERNAL_SERVER_ERROR,
                      <<"An internal error occurred during registration.">>,
                      0, None, None, remote, r.trace)

(* api/auth.py: register_user maps the outcome of setup_user to a response *)
register_user(r, tabpfn_token, outcome) ==
    LET remote == <<Call("get_api_usage", tabpfn_token, None, outcome)>>
    IN  IF r.exc = None
        THEN Response("register", HTTP_201_CREATED, <<>>, 0, r.ret, None, remote, r.trace)
        ELSE IF r.exc = "InvalidTabPFNTokenError"
        THEN Response("register", HTTP_400_BAD_REQUEST,
                      <<"The provided TabPFN token could not be verified as valid.">>,
                      0, None, None, remote, r.trace)
        ELSE IF r.exc = "AuthServiceDownstreamUnavailableError"
        THEN Response("register", HTTP_503_SERVICE_UNAVAILABLE,
                      <<"The TabPFN service is currently unavailable.">>,
                      0, None, None, remote, r.trace)
        ELSE Response("register", HTTP_500_INTERNAL_SERVER_ERROR,
                      <<"An internal error occurred during registration.">>,
                      0, None, None, remote, r.trace)

-----------------------------------------------------------------------------
(* core/security.py: the authentication dependency *)

(* a scheme check that lets every scheme but a missing one through *)
bearer_scheme_any_scheme(header) ==
    IF header.scheme = None
    THEN [status |-> HTTP_403_FORBIDDEN, detail |-> "Not authenticated"]
    ELSE [status |-> HTTP_200_OK, detail |-> ""]

(* HTTPBearer: a missing header or another scheme is refused with 403 *)
bearer_scheme(header) ==
    IF header.scheme = None
    THEN [status |-> HTTP_403_FORBIDDEN, detail |-> "Not authenticated"]
    ELSE IF header.scheme # "Bearer"
    THEN [status |-> HTTP_403_FORBIDDEN, detail |-> "Invalid authentication credentials"]
    ELSE [status |-> HTTP_200_OK, detail |-> ""]

(* a scan that passes over the rows whose token the cipher cannot open *)
matched_user_decryptable(db_users, plain_api_key) ==
    LET hits == {i \in 1..Len(db_users) :
                    /\ verify_api_key(plain_api_key, db_users[i].hashed_api_key)
                    /\ decrypt_token(db_users[i].encrypted_tabpfn_token, fernet).exc = None}
    IN  IF hits = {} THEN 0 ELSE CHOOSE i \in hits : \A j \in hits : i <= j

(* the scan of get_current_user: the first row whose hash verifies, or 0 *)
matched_user(db_users, plain_api_key) ==
    LET hits == {i \in 1..Len(db_users) :
                    verify_api_key(plain_api_key, db_users[i].hashed_api_key)}
    IN  IF hits = {} THEN 0 ELSE CHOOSE i \in hits : \A j \in hits : i <= j

(* a dependency whose storage faults answer as unknown credentials *)
get_current_user_fault_as_401(header, db_users, fault) ==
    LET b == bearer_scheme(header)
        m == matched_user(db_users, header.credentials)
    IN  IF b.status # HTTP_200_OK
        THEN [status |-> b.status, detail |-> b.detail, id |-> 0]
        ELSE IF fault \/ m = 0
        THEN [status |-> HTTP_401_UNAUTHORIZED,
              detail |-> "Could not validate credentials", id |-> 0]
        ELSE [status |-> HTTP_200_OK, detail |-> "", id |-> db_users[m].id]

(* get_current_user: the id of the authenticated user, or the HTTP error.   *)
(* `fault` is a storage fault while the rows are loaded.                    *)
get_current_user(header, db_users, fault) ==
    LET b == bearer_scheme(header)
        m == matched_user(db_users, header.credentials)
    IN  IF b.status # HTTP_200_OK
        THEN [status |-> b.status, detail |-> b.detail, id |-> 0]
        ELSE IF fault
        THEN [status |-> HTTP_500_INTERNAL_SERVER_ERROR,
              detail |-> "Internal server error during authentication.", id |-> 0]
        ELSE IF m = 0
        THEN [status |-> HTTP_401_UNAUTHORIZED,
              detail |-> "Could not validate credentials", id |-> 0]
        ELSE [status |-> HTTP_200_OK, detail |-> "", id |-> db_users[m].id]

-----------------------------------------------------------------------------
(* schemas/model.py.  A feature table is the sequence of its rows' lengths, *)
(* a target its length, feature_names their number (-1 for no names).       *)

NoNames == -1

(* ModelFitRequest: the field constraints and check_features_non_empty_rows *)
FitFieldError(req) ==
    IF Len(req.features) < 1 THEN "at least 1 item"
    ELSE IF \E i \in DOMAIN req.features : req.features[i] = 0
    THEN "Feature rows cannot be empty lists."
    ELSE IF req.target < 1 THEN "at least 1 item"
    ELSE IF req.feature_names = 0 THEN "at least 1 item"
    ELSE None

(* a validator that does not compare the rows with the target *)
check_dimensions_match_no_target(req) ==
    LET first_row_len == req.features[1]
    IN  IF ~(\A i \in DOMAIN req.features : req.features[i] = first_row_len)
        THEN "All feature rows must have the same number of columns."
        ELSE IF req.feature_names # NoNames /\ req.feature_names # first_row_len
        THEN "Number of feature names must match the number of columns in features."
        ELSE None

(* ModelFitRequest.check_dimensions_match *)
check_dimensions_match(req) ==
    LET first_row_len == req.features[1]
    IN  IF ~(\A i \in DOMAIN req.features : req.features[i] = first_row_len)
        THEN "All feature rows must have the same number of columns."
        ELSE IF Len(req.features) # req.target
        THEN "Number of feature rows must match the number of target values."
        ELSE IF req.feature_names # NoNames /\ first_row_len = 0
        THEN "Cannot provide feature names when feature rows are empty."
        ELSE IF req.feature_names # NoNames /\ req.feature_names # first_row_len
        THEN "Number of feature names must match the number of columns in features."
        ELSE None

(* pydantic runs the model validator only when every field validated *)
ModelFitRequest(req) ==
    IF FitFieldError(req) # None THEN FitFieldError(req) ELSE check_dimensions_match(req)

(* ModelPredictRequest: the field constraints, the rows and the task pattern *)
ModelPredictRequest(req) ==
    IF Len(req.features) < 1 THEN "at least 1 item"
    ELSE IF \E i \in DOMAIN req.features : req.features[i] = 0
    THEN "Feature rows cannot be empty lists."
    ELSE IF req.task \notin {"classification", "regression"}
    THEN "String should match pattern"
    ELSE None

(* a row whose two counts changed places *)
ModelMetadata_swapped(id, internal_model_id, tabpfn_train_set_uid, user_id, req) ==
    [id |-> id, internal_model_id |-> internal_model_id,
     tabpfn_train_set_uid |-> tabpfn_train_set_uid, user_id |-> user_id,
     feature_count |-> Len(req.features), sample_count |-> req.features[1],
     feature_names |-> req.feature_names, tabpfn_config |-> req.config]

(* models/model.py: a row of table model_metadata *)
ModelMetadata(id, internal_model_id, tabpfn_train_set_uid, user_id, req) ==
    [id |-> id, internal_model_id |-> internal_model_id,
     tabpfn_train_set_uid |-> tabpfn_train_set_uid, user_id |-> user_id,
     feature_count |-> req.features[1], sample_count |-> Len(req.features),
     feature_names |-> req.feature_names, tabpfn_config |-> req.config]

(* an item that shows the whole row *)
UserModelMetadataItem_whole_row(row) == row

(* schemas/model.py: UserModelMetadataItem, what a listing shows of a row *)
UserModelMetadataItem(row) ==
    [internal_model_id |-> row.internal_model_id,
     feature_count |-> row.feature_count, sample_count |-> row.sample_count,
     feature_names |-> row.feature_names, tabpfn_config |-> row.tabpfn_config]

-----------------------------------------------------------------------------
(* services/model_service.py, after section 4.5 of the design document *)

(* the text of a message, word by word *)
Words(msg) == [i \in DOMAIN msg |-> msg[i].kw]

(* the row with this internal_model_id, or 0 *)
model_by_id(db_models, internal_model_id) ==
    LET hits == {i \in 1..Len(db_models) :
                    db_models[i].internal_model_id = internal_model_id}
    IN  IF hits = {} THEN 0 ELSE CHOOSE i \in hits : TRUE

(* train_new_model: decrypt, validate, remote fit, persist.  `fault` is a   *)
(* fault of the commit, `new_id` the uuid4 drawn for the row; `trace` is    *)
(* the steps taken, in order.                                               *)
train_new_model(db_models, current_user, req, fkey, outcome, new_id, fault) ==
    LET dec == decrypt_token(current_user.encrypted_tabpfn_token, fkey)
        f == fit_model(outcome)
        call == Call("fit", set_access_token(access_token, dec.value), None, outcome)
        row == ModelMetadata(Len(db_models) + 1, new_id, f.value, current_user.id, req)
    IN  IF dec.exc # None
        THEN [exc |-> "ModelServiceError", msg |-> <<Phrase("decrypt", TRUE)>>,
              models |-> db_models, ret |-> None, remote |-> <<>>,
              trace |-> <<"decrypt">>]
        ELSE IF ModelFitRequest(req) # None
        THEN [exc |-> "ModelServiceError", msg |-> <<Phrase("boom", FALSE)>>,
              models |-> db_models, ret |-> None, remote |-> <<>>,
              trace |-> <<"decrypt", "validate">>]
        ELSE IF f.exc # None
        THEN [exc |-> "ModelServiceError", msg |-> f.msg,
              models |-> db_models, ret |-> None, remote |-> <<call>>,
              trace |-> <<"decrypt", "validate", "fit">>]
        ELSE IF fault
        THEN [exc |-> "ModelServiceError",
              msg |-> <<Phrase("boom", FALSE), Phrase("save model metadata", TRUE)>>,
              models |-> db_models, ret |-> None, remote |-> <<call>>,
              trace |-> <<"decrypt", "validate", "fit", "add", "rollback">>]
        ELSE [exc |-> None, msg |-> <<>>, models |-> Append(db_models, row),
              ret |-> new_id, remote |-> <<call>>,
              trace |-> <<"decrypt", "validate", "fit", "add", "commit">>]

(* get_predictions: look up, check the owner, decrypt, check the column     *)
(* count against feature_count, remote predict with the stored handle.      *)
get_predictions(db_models, current_user, internal_model_id, req, fkey, outcome) ==
    LET m == model_by_id(db_models, internal_model_id)
        rec == db_models[m]
        dec == decrypt_token(current_user.encrypted_tabpfn_token, fkey)
        p == predict_model(outcome)
        call == Call("predict", set_access_token(access_token, dec.value),
                     rec.tabpfn_train_set_uid, outcome)
    IN  IF m = 0
        THEN [exc |-> "ModelServiceError",
              msg |-> <<Phrase("boom", FALSE), Phrase("not found", TRUE)>>,
              args |-> <<>>, remote |-> <<>>]
        ELSE IF rec.user_id # current_user.id
        THEN [exc |-> "ModelServiceError",
              msg |-> <<Phrase("access denied", FALSE), Phrase("boom", TRUE)>>,
              args |-> <<>>, remote |-> <<>>]
        ELSE IF dec.exc # None
        THEN [exc |-> "ModelServiceError", msg |-> <<Phrase("decrypt", TRUE)>>,
              args |-> <<>>, remote |-> <<>>]
        ELSE IF req.features[1] # rec.feature_count
        THEN [exc |-> "ModelServiceError", msg |-> <<Phrase("boom", FALSE)>>,
              args |-> <<"expected", ToString(rec.feature_count),
                         "got", ToString(req.features[1])>>,
              remote |-> <<>>]
        ELSE IF p.exc # None
        THEN [exc |-> "ModelServiceError", msg |-> p.msg, args |-> <<>>,
              remote |-> <<call>>]
        ELSE [exc |-> None, msg |-> <<>>, args |-> <<>>, remote |-> <<call>>]

(* a selection that does not look at the owner *)
OwnedBy_anyone(db_models, user_id) == db_models

(* list_user_models: the rows of the caller, or ModelServiceError when the *)
(* query fails                                                              *)
OwnedBy(db_models, user_id) ==
    LET RECURSIVE Rows(_)
        Rows(n) == IF n = 0 THEN <<>>
                   ELSE IF db_models[n].user_id = user_id
                        THEN Append(Rows(n - 1), db_models[n])
                        ELSE Rows(n - 1)
    IN  Rows(Len(db_models))
list_user_models(db_models, current_user, fault) ==
    IF fault
    THEN [exc |-> "ModelServiceError", rows |-> <<>>]
    ELSE [exc |-> None, rows |-> OwnedBy(db_models, current_user.id)]

(* list_available_models: the catalog of the client library, or            *)
(* ModelServiceError                                                       *)
list_available_models(fault) ==
    IF fault THEN [exc |-> "ModelServiceError"] ELSE [exc |-> None]

(* An uploaded file: the text CSVParsingError carries when it does not     *)
(* parse, else the table it parses to.                                     *)
CsvFile(error, data) == [error |-> error, data |-> data]

(* train_model_from_csv: parse the file, then train on the table *)
train_model_from_csv(db_models, current_user, file, fkey, outcome, new_id, fault) ==
    IF file.error # None
    THEN [exc |-> "CSVParsingError", msg |-> <<Phrase(file.error, TRUE)>>,
          models |-> db_models, ret |-> None, remote |-> <<>>, trace |-> <<"parse">>]
    ELSE train_new_model(db_models, current_user, file.data, fkey, outcome,
                         new_id, fault)

(* get_predictions_from_csv: parse the file, then predict on the table; a  *)
(* table of another width than the model's is refused as a file error      *)
get_predictions_from_csv(db_models, current_user, model_id, file, fkey, outcome) ==
    LET r == get_predictions(db_models, current_user, model_id,
                             file.data, fkey, outcome)
    IN  IF file.error # None
        THEN [exc |-> "CSVParsingError", msg |-> <<Phrase(file.error, TRUE)>>,
              args |-> <<>>, remote |-> <<>>]
        ELSE IF r.args # <<>>
        THEN [r EXCEPT !.exc = "CSVParsingError"]
        ELSE r

-----------------------------------------------------------------------------
(* api/models.py: the routes *)

(* a mapping that does not look for "save model metadata" *)
FitErrorStatus_no_save(msg) ==
    IF Contains(msg, "decrypt")
    THEN HTTP_500_INTERNAL_SERVER_ERROR
    ELSE HTTP_503_SERVICE_UNAVAILABLE

(* a mapping that does not look for "decrypt" *)
FitErrorStatus_no_decrypt(msg) ==
    IF Contains(msg, "save model metadata")
    THEN HTTP_500_INTERNAL_SERVER_ERROR
    ELSE HTTP_503_SERVICE_UNAVAILABLE

(* fit_new_model: the status of a ModelServiceError, by its text *)
FitErrorStatus(msg) ==
    IF Contains(msg, "decrypt") \/ Contains(msg, "save model metadata")
    THEN HTTP_500_INTERNAL_SERVER_ERROR
    ELSE HTTP_503_SERVICE_UNAVAILABLE

(* fit_new_model: the response to the outcome of train_new_model *)
fit_new_model(r, caller) ==
    IF r.exc = None
    THEN Response("fit", HTTP_201_CREATED, <<>>, caller, None, r.ret, r.remote, r.trace)
    ELSE IF r.exc = "ModelServiceDownstreamUnavailableError"
    THEN Response("fit", HTTP_503_SERVICE_UNAVAILABLE,
                  <<"The TabPFN service is currently unavailable for model training.">>,
                  caller, None, None, r.remote, r.trace)
    ELSE IF r.exc = "ModelServiceError"
    THEN Response("fit", FitErrorStatus(r.msg),
                  IF FitErrorStatus(r.msg) = HTTP_500_INTERNAL_SERVER_ERROR
                  THEN <<"An internal error occurred while processing your request.">>
                  ELSE <<"Failed to train model:">> \o Words(r.msg),
                  caller, None, None, r.remote, r.trace)
    ELSE Response("fit", HTTP_500_INTERNAL_SERVER_ERROR,
                  <<"An unexpected internal error occurred.">>,
                  caller, None, None, r.remote, r.trace)

(* a mapping that answers "access denied" as it answers "not found" *)
PredictErrorStatus_conflated(msg) ==
    IF Contains(Lower(msg), "not found") \/ Contains(Lower(msg), "access denied")
    THEN HTTP_404_NOT_FOUND
    ELSE IF Contains(Lower(msg), "decrypt") THEN HTTP_500_INTERNAL_SERVER_ERROR
    ELSE HTTP_503_SERVICE_UNAVAILABLE

(* a mapping without the branch of "access denied" *)
PredictErrorStatus_no_403(msg) ==
    IF Contains(Lower(msg), "not found") THEN HTTP_404_NOT_FOUND
    ELSE IF Contains(Lower(msg), "decrypt") THEN HTTP_500_INTERNAL_SERVER_ERROR
    ELSE HTTP_503_SERVICE_UNAVAILABLE

(* predict_with_model: the status of a ModelServiceError, by its text *)
PredictErrorStatus(msg) ==
    IF Contains(Lower(msg), "not found") THEN HTTP_404_NOT_FOUND
    ELSE IF Contains(Lower(msg), "access denied") THEN HTTP_403_FORBIDDEN
    ELSE IF Contains(Lower(msg), "decrypt") THEN HTTP_500_INTERNAL_SERVER_ERROR
    ELSE HTTP_503_SERVICE_UNAVAILABLE

(* uuid.UUID(model_id) accepts the string *)
IsUUID(model_id) == model_id \in UUIDs

(* predict_with_model: the response to the outcome of get_predictions.  The *)
(* HTTPException(400) for a malformed model_id is raised inside the try     *)
(* block, whose last handler, `except Exception`, replaces it.              *)
predict_with_model(model_id, r, caller) ==
    IF ~IsUUID(model_id)
    THEN Response("predict", HTTP_500_INTERNAL_SERVER_ERROR,
                  <<"An unexpected internal error occurred.">>,
                  caller, None, None, <<>>, <<>>)
    ELSE IF r.exc = None
    THEN Response("predict", HTTP_200_OK, <<>>, caller, None, None, r.remote, <<>>)
    ELSE IF r.exc = "ModelServiceDownstreamUnavailableError"
    THEN Response("predict", HTTP_503_SERVICE_UNAVAILABLE,
                  <<"The TabPFN service is currently unavailable for prediction.">>,
                  caller, None, None, r.remote, <<>>)
    ELSE IF r.exc = "ModelServiceError"
    THEN Response("predict", PredictErrorStatus(r.msg), Words(r.msg) \o r.args,
                  caller, None, None, r.remote, <<>>)
    ELSE Response("predict", HTTP_500_INTERNAL_SERVER_ERROR,
                  <<"An unexpected internal error occurred.">>,
                  caller, None, None, r.remote, <<>>)


(* get_user_models_list: the response to the outcome of list_user_models; *)
(* `models` is the body of UserModelListResponse                            *)
ListResponse(status, detail, caller, items) ==
    [op |-> "list", status |-> status, detail |-> detail, caller |-> caller,
     api_key |-> None, internal_model_id |-> None, remote |-> <<>>,
     trace |-> <<>>, models |-> items]
ListRefused(a) == ListResponse(a.status, <<a.detail>>, 0, <<>>)
get_user_models_list(r, caller) ==
    IF r.exc = None
    THEN ListResponse(HTTP_200_OK, <<>>, caller,
                      [i \in DOMAIN r.rows |-> UserModelMetadataItem(r.rows[i])])
    ELSE ListResponse(HTTP_500_INTERNAL_SERVER_ERROR,
                      <<"An internal error occurred while retrieving your models.">>,
                      caller, <<>>)

(* get_list_of_available_models: the response to list_available_models *)
get_list_of_available_models(r) ==
    IF r.exc = None
    THEN Response("available", HTTP_200_OK, <<>>, 0, None, None, <<>>, <<>>)
    ELSE Response("available", HTTP_500_INTERNAL_SERVER_ERROR,
                  <<"An internal error occurred while retrieving the available models lists.">>,
                  0, None, None, <<>>, <<>>)

(* fit_new_model_from_csv: the response to the outcome of train_model_from_csv *)
fit_new_model_from_csv(r, caller) ==
    IF r.exc = None
    THEN Response("fit_upload", HTTP_201_CREATED, <<>>, caller, None, r.ret,
                  r.remote, r.trace)
    ELSE IF r.exc = "CSVParsingError"
    THEN Response("fit_upload", HTTP_400_BAD_REQUEST, Words(r.msg),
                  caller, None, None, r.remote, r.trace)
    ELSE IF r.exc = "ModelServiceDownstreamUnavailableError"
    THEN Response("fit_upload", HTTP_503_SERVICE_UNAVAILABLE,
                  <<"The TabPFN service is currently unavailable for model training.">>,
                  caller, None, None, r.remote, r.trace)
    ELSE IF r.exc = "ModelServiceError"
    THEN Response("fit_upload", FitErrorStatus(r.msg),
                  IF FitErrorStatus(r.msg) = HTTP_500_INTERNAL_SERVER_ERROR
                  THEN <<"An internal error occurred while processing your request.">>
                  ELSE <<"Failed to train model:">> \o Words(r.msg),
                  caller, None, None, r.remote, r.trace)
    ELSE Response("fit_upload", HTTP_500_INTERNAL_SERVER_ERROR,
                  <<"An unexpected internal error occurred.">>,
                  caller, None, None, r.remote, r.trace)

(* predict_with_model_from_csv: as predict_with_model, the HTTPException   *)
(* for a malformed model_id is raised inside the try block and replaced by *)
(* its last handler                                                        *)
predict_with_model_from_csv(model_id, r, caller) ==
    IF ~IsUUID(model_id)
    THEN Response("predict_upload", HTTP_500_INTERNAL_SERVER_ERROR,
                  <<"An unexpected internal error occurred.">>,
                  caller, None, None, <<>>, <<>>)
    ELSE IF r.exc = None
    THEN Response("predict_upload", HTTP_200_OK, <<>>, caller, None, None,
                  r.remote, <<>>)
    ELSE IF r.exc = "CSVParsingError"
    THEN Response("predict_upload", HTTP_400_BAD_REQUEST, Words(r.msg) \o r.args,
                  caller, None, None, r.remote, <<>>)
    ELSE IF r.exc = "ModelServiceDownstreamUnavailableError"
    THEN Response("predict_upload", HTTP_503_SERVICE_UNAVAILABLE,
                  <<"The TabPFN service is currently unavailable for prediction.">>,
                  caller, None, None, r.remote, <<>>)
    ELSE IF r.exc = "ModelServiceError"
    THEN Response("predict_upload", PredictErrorStatus(r.msg),
                  Words(r.msg) \o r.args, caller, None, None, r.remote, <<>>)
    ELSE Response("predict_upload", HTTP_500_INTERNAL_SERVER_ERROR,
                  <<"An unexpected internal error occurred.">>,
                  caller, None, None, r.remote, <<>>)

-----------------------------------------------------------------------------
(* What a request can carry and what the environment can answer *)

BearerHeader(k) == [scheme |-> "Bearer", credentials |-> k]

AuthHeaders ==
    { [scheme |-> None, credentials |-> None],
      [scheme |-> "Basic", credentials |-> "K1"] }
    \cup { BearerHeader(KeyOrder[i]) : i \in 1..MaxUsers }
    \cup { BearerHeader("garbage") }

FitReq(features, target, feature_names, config) ==
    [features |-> features, target |-> target, feature_names |-> feature_names,
     config |-> config]

PredictReq(features, task) == [features |-> features, task |-> task]

(* every table of at most MaxRows rows of at most MaxCols columns *)
Tables == UNION { [1..n -> 0..MaxCols] : n \in 0..MaxRows }

AllFitRequests ==
    [features : Tables, target : 0..MaxRows,
     feature_names : {NoNames} \cup 0..MaxCols, config : {None, "cfg"}]

(* the requests of the test suite and of the design document's scenarios:  *)
(* two well-formed tables, then ragged rows, a short target, an empty      *)
(* table and a short list of names                                         *)
FitSamples ==
    { FitReq(<<2, 2>>, 2, NoNames, None),
      FitReq(<<1>>, 1, 1, "cfg"),
      FitReq(<<2, 1>>, 2, NoNames, None),
      FitReq(<<2, 2>>, 1, NoNames, None),
      FitReq(<<>>, 0, NoNames, None),
      FitReq(<<2>>, 1, 1, None) }

PredictSamples ==
    { PredictReq(<<2>>, "classification"),
      PredictReq(<<1>>, "regression"),
      PredictReq(<<>>, "classification"),
      PredictReq(<<2>>, "invalid_task_type") }

(* the ids the table can hold, one it cannot, and a string that is no UUID *)
ModelIds == {UuidOrder[i] : i \in 1..MaxModels + 1} \cup {"not-a-uuid"}

(* texts of remote failures: "401 Unauthorized", "Rate limit exceeded,     *)
(* 429", "Connection refused" and an unrelated text for get_api_usage; a   *)
(* connection failure and a text that mentions decryption for fit; a       *)
(* failure and a missing train set for predict                             *)
VerifyMessages ==
    { <<Phrase("401", TRUE), Phrase("unauthorized", FALSE)>>,
      <<Phrase("rate limit", FALSE), Phrase("429", TRUE)>>,
      <<Phrase("connection refused", FALSE)>>,
      <<Phrase("boom", TRUE)>> }
FitMessages ==
    { <<Phrase("boom", FALSE)>>,
      <<Phrase("boom", TRUE), Phrase("decrypt", TRUE)>> }
PredictMessages ==
    { <<Phrase("boom", FALSE)>>,
      <<Phrase("boom", TRUE), Phrase("not found", TRUE)>> }

(* every phrase: each keyword of the three tables and a text without       *)
(* keywords, in lower case or with capitals (digits have one case only)    *)
AllPhrases ==
    { Phrase(kw, TRUE) :
        kw \in AuthKeywords \cup LimitKeywords \cup ConnectionKeywords \cup {"boom"} }
    \cup { Phrase(kw, FALSE) :
        kw \in (AuthKeywords \cup LimitKeywords \cup ConnectionKeywords \cup {"boom"})
               \ {"401", "429", "503"} }

(* every message of at most MaxPhrases phrases *)
AllMessages == UNION { [1..n -> AllPhrases] : n \in 0..MaxPhrases }

VerifyOutcomes == {Ok("usage")} \cup {Raises(m) : m \in VerifyMessages}
FitOutcomes == {Ok(h) : h \in Handles \cup {""}} \cup {Raises(m) : m \in FitMessages}
PredictOutcomes == {Ok("predictions")} \cup {Raises(m) : m \in PredictMessages}

(* the selections of answers and requests the smaller specifications draw *)
UsageAnswered == {Ok("usage")}
FitAnswered == {Ok(h) : h \in Handles}
FitAnsweredOrRaised == FitAnswered \cup {Raises(m) : m \in FitMessages}
FitAnsweredOrBoom == FitAnswered \cup {Raises(<<Phrase("boom", FALSE)>>)}
PredictAnswered == {Ok("predictions")}
VerifyAnsweredOrRaised == UsageAnswered \cup {Raises(m) : m \in AllMessages}
OneFitRequest == {FitReq(<<2, 2>>, 2, NoNames, None)}
TwoFitRequests == {FitReq(<<2, 2>>, 2, NoNames, None), FitReq(<<1>>, 1, 1, "cfg")}
OnePredictRequest == {PredictReq(<<2>>, "classification")}
FirstKey == {BearerHeader(KeyOrder[1])}

SetupFaults == {"none", "generate", "hash", "encrypt", "add", "commit", "refresh"}

(* secrets.token_urlsafe(32) and uuid.uuid4 draw values not drawn before;  *)
(* which one is immaterial, and the model takes the first unused.          *)
StoredKeys == {users[i].hashed_api_key.digest[3] : i \in 1..Len(users)}
StoredIds == {models[i].internal_model_id : i \in 1..Len(models)}
FirstUnused(order, used) ==
    order[CHOOSE i \in DOMAIN order :
            /\ order[i] \notin used
            /\ \A j \in DOMAIN order : order[j] \notin used => i <= j]
generate_api_key == FirstUnused(KeyOrder, StoredKeys)
uuid4 == FirstUnused(UuidOrder, StoredIds)

(* generate_api_key while other registrations are in flight: a key that    *)
(* neither a stored account nor a registration in flight has drawn          *)
KeysInFlight ==
    {tasks[t].body[1].plain_api_key :
        t \in {u \in 1..MaxTasks : tasks[u].op = "register"}}
token_urlsafe_repeating == KeyOrder[1]
token_urlsafe == FirstUnused(KeyOrder, StoredKeys \cup KeysInFlight)

(* A request as received: the Authorization header, the token of a         *)
(* registration, the model_id of the path, and the body once it is read    *)
NoHeader == [scheme |-> None, credentials |-> None]
Request(op, header, token, model_id, body) ==
    [op |-> op, header |-> header, token |-> token, model_id |-> model_id,
     body |-> body]
NoRequest == Request("none", NoHeader, None, None, <<>>)

(* A request in flight: where its coroutine is suspended and what it holds *)
Task(pc, op, header, caller, model_id, body) ==
    [pc |-> pc, op |-> op, header |-> header, caller |-> caller,
     model_id |-> model_id, body |-> body]
NoTask == Task("idle", "none", NoHeader, 0, None, <<>>)

(* the token the client library holds once a request is done: the one its  *)
(* call of fit_model or predict_model left there                           *)
TokenAfter(r) ==
    IF r.remote # <<>> /\ r.remote[1].fn \in {"fit", "predict"}
    THEN r.remote[1].token
    ELSE access_token

(* db/database.py: get_db.  The session is opened, yielded to the request  *)
(* and closed by the context manager; an exception that reaches the yield  *)
(* rolls it back first and is raised again.                                *)
get_db_no_rollback(raised) == <<"open", "close">>
get_db(raised) ==
    IF raised THEN <<"open", "rollback", "close", "raise">> ELSE <<"open", "close">>

(* the request ended with an HTTPException or a validation error *)
Raised(r) == r.status >= HTTP_400_BAD_REQUEST

-----------------------------------------------------------------------------
Init ==
    /\ proc = "down"
    /\ SECRET_KEY \in MasterSecrets
    /\ fernet = None
    /\ users = <<>>
    /\ models = <<>>
    /\ request = NoRequest
    /\ resp = NoResponse
    /\ access_token = None
    /\ tasks = [t \in 1..MaxTasks |-> NoTask]
    /\ session = <<>>

(* Import of core/security.py: the cipher is built, or the process dies *)
Startup ==
    /\ proc = "down"
    /\ LET k == _get_fernet_key(SECRET_KEY)
       IN  IF k.exc # None
           THEN proc' = "crashed" /\ fernet' = None
           ELSE proc' = "up" /\ fernet' = k.key
    /\ UNCHANGED <<SECRET_KEY, users, models, request, resp, access_token, tasks,
                   session>>

(* The operator stops the process and configures another SECRET_KEY *)
Restart ==
    /\ proc \in {"up", "crashed"}
    /\ \E s \in MasterSecrets : SECRET_KEY' = s
    /\ proc' = "down"
    /\ fernet' = None
    /\ request' = NoRequest
    /\ resp' = NoResponse
    /\ access_token' = None
    /\ tasks' = [t \in 1..MaxTasks |-> NoTask]
    /\ session' = <<>>
    /\ UNCHANGED <<users, models>>

(* POST /auth/setup, with the token and the remote answer drawn from the   *)
(* given sets                                                              *)
RegisterWith(tokens, outcomes, salts, faults) ==
    /\ proc = "up"
    /\ Len(users) < MaxUsers
    /\ \E tabpfn_token \in tokens, outcome \in outcomes :
         /\ request' = Request("register", NoHeader, tabpfn_token, None, <<>>)
         /\ IF ~verify_tabpfn_token(outcome)
            THEN LET r == setup_user(users, tabpfn_token, outcome, generate_api_key,
                                     "s1", fernet, "none")
                 IN  /\ users' = r.users
                     /\ resp' = register_user(r, tabpfn_token, outcome)
            ELSE \E salt \in salts, fault \in faults :
                 LET r == setup_user(users, tabpfn_token, outcome, generate_api_key,
                                     salt, fernet, fault)
                 IN  /\ users' = r.users
                     /\ resp' = register_user(r, tabpfn_token, outcome)
    /\ session' = get_db(Raised(resp'))
    /\ UNCHANGED <<proc, SECRET_KEY, fernet, models, access_token, tasks>>

(* the response of a protected route whose dependency refused the request *)
Refused(op, a) == Response(op, a.status, <<a.detail>>, 0, None, None, <<>>, <<>>)

(* the 422 of a body that does not validate *)
Unprocessable(op, caller, error) ==
    Response(op, HTTP_422_UNPROCESSABLE_ENTITY, <<error>>, caller, None, None, <<>>, <<>>)

(* POST /models/fit: the dependency, then the body, then the handler;      *)
(* `capacity` is the number of rows the table is let to hold               *)
FitWithin(capacity, headers, requests, outcomes) ==
    /\ proc = "up"
    /\ \E header \in headers :
         IF get_current_user(header, users, FALSE).status # HTTP_200_OK
         THEN \E dbfault \in BOOLEAN :
              /\ request' = Request("fit", header, None, None, <<>>)
              /\ resp' = Refused("fit", get_current_user(header, users, dbfault))
              /\ UNCHANGED models
         ELSE \/ /\ request' = Request("fit", header, None, None, <<>>)
                 /\ resp' = Refused("fit", get_current_user(header, users, TRUE))
                 /\ UNCHANGED models
              \/ \E req \in requests :
                 LET a == get_current_user(header, users, FALSE)
                 IN  /\ request' = Request("fit", header, None, None, <<req>>)
                     /\ IF ModelFitRequest(req) # None
                        THEN /\ resp' = Unprocessable("fit", a.id, ModelFitRequest(req))
                             /\ UNCHANGED models
                        ELSE \E outcome \in outcomes, fault \in BOOLEAN :
                             LET r == train_new_model(models, users[a.id], req, fernet,
                                                      outcome, uuid4, fault)
                             IN  /\ r.exc = None => Len(models) < capacity
                                 /\ models' = r.models
                                 /\ resp' = fit_new_model(r, a.id)
    /\ access_token' = TokenAfter(resp')
    /\ session' = get_db(Raised(resp'))
    /\ UNCHANGED <<proc, SECRET_KEY, fernet, users, tasks>>
FitWith(headers, requests, outcomes) ==
    FitWithin(MaxModels, headers, requests, outcomes)

(* POST /models/{model_id}/predict *)
PredictWith(headers, requests, ids, outcomes) ==
    /\ proc = "up"
    /\ \E header \in headers, model_id \in ids :
         IF get_current_user(header, users, FALSE).status # HTTP_200_OK
         THEN \E dbfault \in BOOLEAN :
              /\ request' = Request("predict", header, None, model_id, <<>>)
              /\ resp' = Refused("predict", get_current_user(header, users, dbfault))
         ELSE \/ /\ request' = Request("predict", header, None, model_id, <<>>)
                 /\ resp' = Refused("predict", get_current_user(header, users, TRUE))
              \/ \E req \in requests :
                 LET a == get_current_user(header, users, FALSE)
                 IN  /\ request' = Request("predict", header, None, model_id, <<req>>)
                     /\ IF ModelPredictRequest(req) # None
                        THEN resp' = Unprocessable("predict", a.id,
                                                   ModelPredictRequest(req))
                        ELSE \E outcome \in outcomes :
                             LET r == get_predictions(models, users[a.id], model_id,
                                                      req, fernet, outcome)
                             IN  resp' = predict_with_model(model_id, r, a.id)
    /\ access_token' = TokenAfter(resp')
    /\ session' = get_db(Raised(resp'))
    /\ UNCHANGED <<proc, SECRET_KEY, fernet, users, models, tasks>>

(* GET /models/: the dependency, then the handler.  get_current_user is    *)
(* also a dependency of the route itself and is solved first, so a request *)
(* that bearer_scheme refuses has opened no session.                        *)
ListWith(headers) ==
    /\ proc = "up"
    /\ \E header \in headers :
         /\ request' = Request("list", header, None, None, <<>>)
         /\ IF get_current_user(header, users, FALSE).status # HTTP_200_OK
            THEN \E dbfault \in BOOLEAN :
                 resp' = ListRefused(get_current_user(header, users, dbfault))
            ELSE \/ resp' = ListRefused(get_current_user(header, users, TRUE))
                 \/ \E fault \in BOOLEAN :
                    LET a == get_current_user(header, users, FALSE)
                    IN  resp' = get_user_models_list(
                                   list_user_models(models, users[a.id], fault), a.id)
    /\ session' = IF bearer_scheme(request'.header).status # HTTP_200_OK
                  THEN <<>>
                  ELSE get_db(Raised(resp'))
    /\ UNCHANGED <<proc, SECRET_KEY, fernet, users, models, access_token, tasks>>

(* GET /models/available: no dependency, no session *)
ListAvailable ==
    /\ proc = "up"
    /\ \E header \in AuthHeaders, fault \in BOOLEAN :
         /\ request' = Request("available", header, None, None, <<>>)
         /\ resp' = get_list_of_available_models(list_available_models(fault))
    /\ session' = <<>>
    /\ UNCHANGED <<proc, SECRET_KEY, fernet, users, models, access_token, tasks>>

(* POST /models/fit/upload: the dependency, then the form, then the handler *)
FitUploadWith(headers, files, outcomes) ==
    /\ proc = "up"
    /\ \E header \in headers :
         IF get_current_user(header, users, FALSE).status # HTTP_200_OK
         THEN \E dbfault \in BOOLEAN :
              /\ request' = Request("fit_upload", header, None, None, <<>>)
              /\ resp' = Refused("fit_upload", get_current_user(header, users, dbfault))
              /\ UNCHANGED models
         ELSE \/ /\ request' = Request("fit_upload", header, None, None, <<>>)
                 /\ resp' = Refused("fit_upload", get_current_user(header, users, TRUE))
                 /\ UNCHANGED models
              \/ \E file \in files :
                 LET a == get_current_user(header, users, FALSE)
                 IN  /\ request' = Request("fit_upload", header, None, None, <<file>>)
                     /\ IF file.error = "Field required"
                        THEN /\ resp' = Unprocessable("fit_upload", a.id, file.error)
                             /\ UNCHANGED models
                        ELSE \E outcome \in outcomes, fault \in BOOLEAN :
                             LET r == train_model_from_csv(models, users[a.id], file,
                                                           fernet, outcome, uuid4, fault)
                             IN  /\ r.exc = None => Len(models) < MaxModels
                                 /\ models' = r.models
                                 /\ resp' = fit_new_model_from_csv(r, a.id)
    /\ access_token' = TokenAfter(resp')
    /\ session' = get_db(Raised(resp'))
    /\ UNCHANGED <<proc, SECRET_KEY, fernet, users, tasks>>

(* POST /models/{model_id}/predict/upload *)
PredictUploadWith(headers, files, ids, outcomes) ==
    /\ proc = "up"
    /\ \E header \in headers, model_id \in ids :
         IF get_current_user(header, users, FALSE).status # HTTP_200_OK
         THEN \E dbfault \in BOOLEAN :
              /\ request' = Request("predict_upload", header, None, model_id, <<>>)
              /\ resp' = Refused("predict_upload",
                                 get_current_user(header, users, dbfault))
         ELSE \/ /\ request' = Request("predict_upload", header, None, model_id, <<>>)
                 /\ resp' = Refused("predict_upload",
                                    get_current_user(header, users, TRUE))
              \/ \E file \in files :
                 LET a == get_current_user(header, users, FALSE)
                 IN  /\ request' = Request("predict_upload", header, None, model_id,
                                           <<file>>)
                     /\ IF file.error = "Field required"
                        THEN resp' = Unprocessable("predict_upload", a.id, file.error)
                        ELSE \E outcome \in outcomes :
                             LET r == get_predictions_from_csv(models, users[a.id],
                                         model_id, file, fernet, outcome)
                             IN  resp' = predict_with_model_from_csv(model_id, r, a.id)
    /\ access_token' = TokenAfter(resp')
    /\ session' = get_db(Raised(resp'))
    /\ UNCHANGED <<proc, SECRET_KEY, fernet, users, models, tasks>>

(* A fit or a predict arrives on coroutine t: the dependency runs, and a    *)
(* request it lets through stays in flight until its handler is resumed.   *)
AcceptWith(t, headers, fits, predicts, ids) ==
    /\ proc = "up"
    /\ tasks[t].pc = "idle"
    /\ \E header \in headers, op \in {"fit", "predict"} :
         LET a == get_current_user(header, users, FALSE)
         IN  IF a.status # HTTP_200_OK
             THEN /\ request' = Request(op, header, None, None, <<>>)
                  /\ resp' = Refused(op, a)
                  /\ session' = get_db(TRUE)
                  /\ UNCHANGED tasks
             ELSE /\ \/ /\ op = "fit"
                        /\ \E req \in fits :
                             tasks' = [tasks EXCEPT ![t] =
                                 Task("authenticated", op, header, a.id, None, <<req>>)]
                     \/ /\ op = "predict"
                        /\ \E req \in predicts, model_id \in ids :
                             tasks' = [tasks EXCEPT ![t] =
                                 Task("authenticated", op, header, a.id, model_id,
                                      <<req>>)]
                  /\ UNCHANGED <<request, resp, session>>
    /\ UNCHANGED <<proc, SECRET_KEY, fernet, users, models, access_token>>

(* The handler of the request in flight on coroutine t runs: the body is   *)
(* validated and the service called; fit_model and predict_model are plain *)
(* functions, so set_access_token and the remote call run without an await *)
(* between them.                                                           *)
ResumeWith(t, fit_outcomes, predict_outcomes) ==
    /\ proc = "up"
    /\ tasks[t].pc = "authenticated"
    /\ LET k == tasks[t]
           req == k.body[1]
       IN  /\ request' = Request(k.op, k.header, None, k.model_id, k.body)
           /\ IF k.op = "fit"
              THEN IF ModelFitRequest(req) # None
                   THEN /\ resp' = Unprocessable("fit", k.caller, ModelFitRequest(req))
                        /\ UNCHANGED models
                   ELSE \E outcome \in fit_outcomes, fault \in BOOLEAN :
                        LET r == train_new_model(models, users[k.caller], req, fernet,
                                                 outcome, uuid4, fault)
                        IN  /\ r.exc = None => Len(models) < MaxModels
                            /\ models' = r.models
                            /\ resp' = fit_new_model(r, k.caller)
              ELSE /\ UNCHANGED models
                   /\ IF ModelPredictRequest(req) # None
                      THEN resp' = Unprocessable("predict", k.caller,
                                                 ModelPredictRequest(req))
                      ELSE \E outcome \in predict_outcomes :
                           LET r == get_predictions(models, users[k.caller], k.model_id,
                                                    req, fernet, outcome)
                           IN  resp' = predict_with_model(k.model_id, r, k.caller)
    /\ access_token' = TokenAfter(resp')
    /\ tasks' = [tasks EXCEPT ![t] = NoTask]
    /\ session' = get_db(Raised(resp'))
    /\ UNCHANGED <<proc, SECRET_KEY, fernet, users>>

Register == RegisterWith(Tokens, VerifyOutcomes, Salts, SetupFaults)
Fit == FitWith(AuthHeaders, FitSamples, FitOutcomes)
Predict == PredictWith(AuthHeaders, PredictSamples, ModelIds, PredictOutcomes)

Next == Startup \/ Restart \/ Register \/ Fit \/ Predict

Spec == Init /\ [][Next]_vars

(* One account and every fit request within the bounds, until the table   *)
(* of models is full                                                       *)
RegisterOne == RegisterWith({"tok-A"}, UsageAnswered, Salts, {"none"})
FitAny ==
    /\ Len(models) < MaxModels
    /\ FitWith(FirstKey, AllFitRequests, FitAnsweredOrRaised)
NextFit == Startup \/ RegisterOne \/ FitAny
SpecFit == Init /\ [][NextFit]_vars

(* One registration, with every answer of get_api_usage within the bounds *)
RegisterAny ==
    /\ resp.op = "none"
    /\ RegisterWith({"tok-A"}, VerifyAnsweredOrRaised, Salts, SetupFaults)
NextVerify == Startup \/ RegisterAny
SpecVerify == Init /\ [][NextVerify]_vars

(* The routes of api/models.py, with two accounts, one request of each     *)
(* kind and every Authorization header                                     *)
FitUploads ==
    { CsvFile(None, FitReq(<<2, 2>>, 2, 2, None)),
      CsvFile("csv parsing failed", FitReq(<<>>, 0, NoNames, None)),
      CsvFile("Field required", FitReq(<<>>, 0, NoNames, None)) }
PredictUploads ==
    { CsvFile(None, PredictReq(<<2>>, "classification")),
      CsvFile(None, PredictReq(<<1>>, "classification")),
      CsvFile("Field required", PredictReq(<<>>, "classification")) }
RegisterTwo == RegisterWith(Tokens, UsageAnswered, Salts, {"none"})
FitOne ==
    FitWith(AuthHeaders, OneFitRequest, FitAnsweredOrBoom)
PredictOne ==
    PredictWith(AuthHeaders, OnePredictRequest, ModelIds, PredictAnswered)
ListModels == ListWith(AuthHeaders)
FitUpload ==
    FitUploadWith(AuthHeaders, FitUploads, FitAnsweredOrBoom)
PredictUpload ==
    PredictUploadWith(AuthHeaders, PredictUploads, ModelIds, PredictAnswered)
NextProtected ==
    \/ Startup \/ RegisterTwo
    \/ FitOne \/ PredictOne \/ ListModels \/ FitUpload \/ PredictUpload
    \/ ListAvailable
SpecProtected == Init /\ [][NextProtected]_vars

(* Two accounts, fits by either until the table holds MaxListed rows, and  *)
(* listings                                                                *)
IssuedKeys == {BearerHeader(KeyOrder[i]) : i \in 1..MaxUsers}
FitSome ==
    FitWithin(MaxListed, IssuedKeys, TwoFitRequests, FitAnswered)
ListOwn == ListWith(IssuedKeys)
NextList == Startup \/ RegisterTwo \/ FitSome \/ ListOwn
SpecList == Init /\ [][NextList]_vars

(* POST /auth/setup up to `await db.commit()`: verification, key, hash,    *)
(* ciphertext and db.add run without an await, on values local to the      *)
(* request; a token that does not verify is answered at once.              *)
StageWith(t, tokens, outcomes, salts) ==
    /\ proc = "up"
    /\ tasks[t].pc = "idle"
    /\ Len(users) + Cardinality(KeysInFlight) < MaxUsers
    /\ \E tabpfn_token \in tokens, outcome \in outcomes, salt \in salts :
         IF ~verify_tabpfn_token(outcome)
         THEN LET r == setup_user(users, tabpfn_token, outcome, token_urlsafe, salt,
                                  fernet, "none")
              IN  /\ request' = Request("register", NoHeader, tabpfn_token, None, <<>>)
                  /\ resp' = register_user(r, tabpfn_token, outcome)
                  /\ session' = get_db(Raised(resp'))
                  /\ UNCHANGED tasks
         ELSE /\ tasks' = [tasks EXCEPT ![t] =
                             Task("staged", "register", NoHeader, 0, None,
                                  <<[tabpfn_token |-> tabpfn_token, outcome |-> outcome,
                                     plain_api_key |-> token_urlsafe, salt |-> salt]>>)]
              /\ UNCHANGED <<request, resp, session>>
    /\ UNCHANGED <<proc, SECRET_KEY, fernet, users, models, access_token>>

(* POST /auth/setup from `await db.commit()` on: the commit makes the row   *)
(* visible, or fails and the session is rolled back                          *)
CommitWith(t, faults) ==
    /\ proc = "up"
    /\ tasks[t].pc = "staged"
    /\ \E fault \in faults :
         LET k == tasks[t].body[1]
             r == setup_user(users, k.tabpfn_token, k.outcome, k.plain_api_key,
                             k.salt, fernet, fault)
         IN  /\ request' = Request("register", NoHeader, k.tabpfn_token, None, <<>>)
             /\ users' = r.users
             /\ resp' = register_user(r, k.tabpfn_token, k.outcome)
    /\ tasks' = [tasks EXCEPT ![t] = NoTask]
    /\ session' = get_db(Raised(resp'))
    /\ UNCHANGED <<proc, SECRET_KEY, fernet, models, access_token>>

(* MaxTasks registrations in flight at a time, and requests that resolve    *)
(* a key while they are                                                     *)
CommitFaults == {"none", "commit", "refresh"}
Stage == \E t \in 1..MaxTasks : StageWith(t, Tokens, VerifyOutcomes, Salts)
Commit == \E t \in 1..MaxTasks : CommitWith(t, CommitFaults)
NextRegister == Startup \/ Stage \/ Commit \/ ListOwn
SpecRegister == Init /\ [][NextRegister]_vars

(* Two accounts and MaxTasks requests in flight at a time *)
Accept ==
    \E t \in 1..MaxTasks :
       AcceptWith(t, IssuedKeys, OneFitRequest, OnePredictRequest, {UuidOrder[1]})
Resume ==
    \E t \in 1..MaxTasks :
       ResumeWith(t, FitAnsweredOrBoom, PredictAnswered)
NextConcurrent == Startup \/ RegisterTwo \/ Accept \/ Resume
SpecConcurrent == Init /\ [][NextConcurrent]_vars

-----------------------------------------------------------------------------
(* The properties.  `request` and `resp` describe the last request served:  *)
(* an invariant over them speaks of every request of every behaviour.       *)

(* the handler of route `op` ran: the caller authenticated, the body validated *)
Handled(op) ==
    /\ request.op = op
    /\ resp.op = op
    /\ resp.caller # 0
    /\ request.body # <<>>
    /\ resp.status # HTTP_422_UNPROCESSABLE_ENTITY

(* the row the path's model_id names, or 0 *)
Requested == model_by_id(models, request.model_id)

(* the accounts whose key is k *)
IssuedTo(k) == {i \in 1..Len(users) : users[i].hashed_api_key.digest[3] = k}

(* the dependency failed on storage, not on the credential *)
AuthStorageFault == resp.status = HTTP_500_INTERNAL_SERVER_ERROR /\ resp.caller = 0

(* C1: ownership isolation.  A predict request authenticated as one account *)
(* on the internal_model_id of a record owned by another account answers    *)
(* 403 and makes no remote call.                                            *)
C1_OwnershipIsolation ==
    (Handled("predict") /\ Requested # 0 /\ models[Requested].user_id # resp.caller)
        => (resp.status = HTTP_403_FORBIDDEN /\ resp.remote = <<>>)

C1_Witness ==
    /\ Handled("predict")
    /\ Requested # 0
    /\ models[Requested].user_id # resp.caller
    /\ resp.status = HTTP_403_FORBIDDEN

(* C2: resolution.  A protected request that presents the key issued to     *)
(* account i is served as account i, whatever the number of accounts; one   *)
(* that presents a key issued to nobody is refused with 401.                *)
C2_ResolutionCorrect ==
    (/\ request.op \in {"fit", "predict"}
     /\ request.header.scheme = "Bearer"
     /\ ~AuthStorageFault)
        => LET owners == IssuedTo(request.header.credentials)
           IN  IF owners = {}
               THEN resp.status = HTTP_401_UNAUTHORIZED /\ resp.caller = 0
               ELSE /\ resp.status # HTTP_401_UNAUTHORIZED
                    /\ \A i \in owners : resp.caller = users[i].id

C2_Witness ==
    /\ request.op \in {"fit", "predict"}
    /\ request.header.scheme = "Bearer"
    /\ Len(users) = MaxUsers
    /\ IssuedTo(request.header.credentials) = {MaxUsers}
    /\ resp.caller = users[MaxUsers].id

(* C3: when the verification of the submitted token returns false, the      *)
(* registration answers 400, the users table is as it was and no key is     *)
(* returned.                                                                *)
C3_InvalidTokenRejected ==
    [][(resp'.op = "register" /\ ~verify_tabpfn_token(resp'.remote[1].outcome))
          => /\ resp'.status = HTTP_400_BAD_REQUEST
             /\ users' = users
             /\ resp'.api_key = None]_vars

C3_Witness ==
    /\ resp.op = "register"
    /\ ~verify_tabpfn_token(resp.remote[1].outcome)
    /\ Classify(Lower(resp.remote[1].outcome.msg)) = "AuthInvalid"
    /\ resp.status = HTTP_400_BAD_REQUEST
    /\ Len(users) > 0

(* C4: when get_api_usage fails with a connection, timeout or 503 text, the *)
(* registration answers 503, not 400, and adds no row to users.             *)
C4_UnreachableIs503 ==
    [][(/\ resp'.op = "register"
        /\ ~resp'.remote[1].outcome.ok
        /\ Classify(Lower(resp'.remote[1].outcome.msg)) = "Unreachable")
          => /\ resp'.status = HTTP_503_SERVICE_UNAVAILABLE
             /\ resp'.status # HTTP_400_BAD_REQUEST
             /\ users' = users]_vars

(* the steps of setup_user the design names, in the order they ran *)
NamedSteps(trace) ==
    SelectSeq(trace, LAMBDA step :
        step \in {"verify", "generate", "hash", "encrypt", "commit", "return"})

(* C5: a registration that succeeds adds exactly one row to users; the key  *)
(* it returns verifies against the row's hash, the row's ciphertext         *)
(* decrypts to the submitted token, and the steps ran in the order verify,  *)
(* generate, hash, encrypt, persist, return.                                *)
C5_RegisterCreatesAccount ==
    [][(resp'.op = "register" /\ resp'.status = HTTP_201_CREATED)
          => /\ Len(users') = Len(users) + 1
             /\ SubSeq(users', 1, Len(users)) = users
             /\ LET db_user == users'[Len(users')]
                    dec == decrypt_token(db_user.encrypted_tabpfn_token, fernet')
                IN  /\ verify_api_key(resp'.api_key, db_user.hashed_api_key)
                    /\ dec.exc = None
                    /\ dec.value = request'.token
             /\ NamedSteps(resp'.trace) =
                  <<"verify", "generate", "hash", "encrypt", "commit", "return">>]_vars

C5_Witness ==
    /\ resp.op = "register"
    /\ resp.status = HTTP_201_CREATED
    /\ request.token = "tok-B"
    /\ Len(users) = MaxUsers
    /\ verify_api_key(resp.api_key, users[MaxUsers].hashed_api_key)

(* C6: no stored row holds a key in the clear: the key column of users is   *)
(* a bcrypt digest, no other text column of users or of model_metadata is a *)
(* key; a key leaves the service only in the 201 of the registration that   *)
(* created it.                                                              *)
C6_NoPlaintextKey ==
    /\ \A i \in 1..Len(users) :
         /\ users[i].hashed_api_key.digest \in
              {Digest(k, salt) : k \in Keys, salt \in Salts}
         /\ users[i].hashed_api_key.salt \notin Keys
         /\ users[i].encrypted_tabpfn_token.plaintext \notin Keys
         /\ users[i].encrypted_tabpfn_token.key \notin Keys
    /\ \A i \in 1..Len(models) :
         /\ models[i].internal_model_id \notin Keys
         /\ models[i].tabpfn_train_set_uid \notin Keys
         /\ models[i].tabpfn_config \notin Keys
    /\ resp.api_key # None
         => /\ resp.op = "register"
            /\ resp.status = HTTP_201_CREATED
            /\ verify_api_key(resp.api_key, users[Len(users)].hashed_api_key)
    /\ \A i \in DOMAIN resp.detail : resp.detail[i] \notin Keys
    /\ resp.internal_model_id \notin Keys

C6_Witness ==
    /\ Len(users) = MaxUsers
    /\ Len(models) = MaxModels
    /\ resp.op = "predict"
    /\ resp.status = HTTP_200_OK

(* C7: a predict on a well-formed internal_model_id that names no record   *)
(* answers 404; on the id of a record owned by another account it answers  *)
(* 403; neither case is answered as the other.                              *)
C7_MissingVsForeign ==
    (Handled("predict") /\ IsUUID(request.model_id))
        => /\ Requested = 0 => resp.status = HTTP_404_NOT_FOUND
           /\ (Requested # 0 /\ models[Requested].user_id # resp.caller)
                => resp.status = HTTP_403_FORBIDDEN
           /\ resp.status = HTTP_403_FORBIDDEN => Requested # 0

C7_Witness ==
    /\ Handled("predict")
    /\ IsUUID(request.model_id)
    /\ Requested = 0
    /\ Len(models) > 0
    /\ resp.status = HTTP_404_NOT_FOUND

(* the remote fit of the last request raised *)
RemoteFitFailed(r) == r.remote # <<>> /\ ~r.remote[1].outcome.ok

(* C8: a row of model_metadata is written only after a remote fit that     *)
(* succeeded, with the train_set_uid that call returned and the caller as   *)
(* owner; a remote fit that fails answers 503 and leaves the table as it    *)
(* was.                                                                     *)
C8_RecordOnlyAfterRemoteFit ==
    [][resp'.op = "fit"
          => /\ models' # models
                  => /\ resp'.status = HTTP_201_CREATED
                     /\ Len(resp'.remote) = 1
                     /\ resp'.remote[1].fn = "fit"
                     /\ resp'.remote[1].outcome.ok
                     /\ Len(models') = Len(models) + 1
                     /\ SubSeq(models', 1, Len(models)) = models
                     /\ models'[Len(models')].tabpfn_train_set_uid =
                          resp'.remote[1].outcome.value
                     /\ models'[Len(models')].user_id = resp'.caller
             /\ RemoteFitFailed(resp')
                  => /\ resp'.status = HTTP_503_SERVICE_UNAVAILABLE
                     /\ models' = models]_vars

(* the tabular shape of a fit request is wrong: rows of different lengths,  *)
(* a target of another length than the number of rows, or names of another  *)
(* number than the columns                                                  *)
BadShape(req) ==
    \/ \E i, j \in DOMAIN req.features : req.features[i] # req.features[j]
    \/ req.target # Len(req.features)
    \/ /\ req.feature_names # NoNames
       /\ Len(req.features) > 0
       /\ req.feature_names # req.features[1]

(* C9: a fit request of wrong shape is rejected as an error of the caller   *)
(* before any remote call, and writes no row.                               *)
C9_ShapeCheckedFirst ==
    [][(/\ resp'.op = "fit"
        /\ resp'.caller # 0
        /\ request'.body # <<>>
        /\ BadShape(request'.body[1]))
          => /\ resp'.status = HTTP_422_UNPROCESSABLE_ENTITY
             /\ resp'.remote = <<>>
             /\ resp'.internal_model_id = None
             /\ models' = models]_vars

C9_Witness ==
    /\ resp.op = "fit"
    /\ resp.caller # 0
    /\ request.body # <<>>
    /\ request.body[1].features = <<2, 2>>
    /\ request.body[1].target = 1
    /\ resp.status = HTTP_422_UNPROCESSABLE_ENTITY
    /\ resp.detail = <<"Number of feature rows must match the number of target values.">>

(* C10: a predict on a record of the caller whose rows have another number  *)
(* of columns than the record's feature_count answers 400, names the        *)
(* expected and the actual count and makes no remote call; with the same    *)
(* number of columns the remote predict is called with the stored           *)
(* train_set_uid.                                                           *)
C10_ColumnMismatchIs400 ==
    (/\ Handled("predict")
     /\ Requested # 0
     /\ models[Requested].user_id = resp.caller
     /\ decrypt_token(users[resp.caller].encrypted_tabpfn_token, fernet).exc = None)
        => LET rec == models[Requested]
               cols == request.body[1].features[1]
           IN  IF cols # rec.feature_count
               THEN /\ resp.status = HTTP_400_BAD_REQUEST
                    /\ \E i \in DOMAIN resp.detail :
                         resp.detail[i] = ToString(rec.feature_count)
                    /\ \E i \in DOMAIN resp.detail : resp.detail[i] = ToString(cols)
                    /\ resp.remote = <<>>
               ELSE /\ Len(resp.remote) = 1
                    /\ resp.remote[1].fn = "predict"
                    /\ resp.remote[1].uid = rec.tabpfn_train_set_uid

(* C11: a fit that succeeds for account A on R rows of C columns appends    *)
(* exactly one row to model_metadata, with user_id = A, sample_count = R,   *)
(* feature_count = C, the train_set_uid the remote fit returned and the     *)
(* feature_names and config of the request; the response carries the row's  *)
(* internal_model_id.                                                       *)
C11_FitCreatesRecord ==
    [][(resp'.op = "fit" /\ resp'.status = HTTP_201_CREATED)
          => /\ Len(models') = Len(models) + 1
             /\ SubSeq(models', 1, Len(models)) = models
             /\ LET row == models'[Len(models')]
                    req == request'.body[1]
                IN  /\ row.user_id = resp'.caller
                    /\ resp'.caller # 0
                    /\ row.sample_count = Len(req.features)
                    /\ \A i \in DOMAIN req.features :
                         row.feature_count = req.features[i]
                    /\ Len(resp'.remote) = 1
                    /\ resp'.remote[1].fn = "fit"
                    /\ resp'.remote[1].outcome.ok
                    /\ row.tabpfn_train_set_uid = resp'.remote[1].outcome.value
                    /\ row.feature_names = req.feature_names
                    /\ row.tabpfn_config = req.config
                    /\ resp'.internal_model_id = row.internal_model_id
                    /\ \A i \in 1..Len(models) :
                         models[i].internal_model_id # row.internal_model_id]_vars

C11_Witness ==
    /\ resp.op = "fit"
    /\ resp.status = HTTP_201_CREATED
    /\ request.body[1].features = <<1, 1>>
    /\ request.body[1].config = "cfg"
    /\ Len(models) = 1
    /\ models[1].sample_count = 2
    /\ models[1].feature_count = 1

(* the stored token of account `id` does not decrypt under cipher `fkey` *)
Undecryptable(db_users, id, fkey) ==
    decrypt_token(db_users[id].encrypted_tabpfn_token, fkey).exc # None

(* the last request reached the decryption of the caller's token: a fit     *)
(* whose body validated, or a predict on a record of the caller             *)
ReachedDecryption(req, r, db_models) ==
    /\ r.caller # 0
    /\ req.body # <<>>
    /\ r.status # HTTP_422_UNPROCESSABLE_ENTITY
    /\ \/ r.op = "fit"
       \/ /\ r.op = "predict"
          /\ IsUUID(req.model_id)
          /\ model_by_id(db_models, req.model_id) # 0
          /\ db_models[model_by_id(db_models, req.model_id)].user_id = r.caller

Reconfigured ==
    /\ proc = "up"
    /\ proc' = "down"
    /\ _get_fernet_key(SECRET_KEY').exc = None
NewCipher == _get_fernet_key(SECRET_KEY').key

(* every remote call of a fit or a predict used the caller's own token *)
RemoteCallsUseOwnToken ==
    resp.op \in {"fit", "predict"}
        => \A i \in DOMAIN resp.remote :
              /\ resp.caller # 0
              /\ resp.remote[i].token =
                   users[resp.caller].encrypted_tabpfn_token.plaintext

Took(trace, name) == \E i \in DOMAIN trace : trace[i] = name

(* the token verified, and setup_user failed before its commit completed *)
PersistFailed(r) ==
    /\ r.op = "register"
    /\ verify_tabpfn_token(r.remote[1].outcome)
    /\ ~Took(r.trace, "commit")
    /\ ~Took(r.trace, "return")

CommitFailedAfterFit(r) ==
    /\ r.op = "fit"
    /\ r.remote # <<>>
    /\ r.remote[1].fn = "fit"
    /\ fit_model(r.remote[1].outcome).exc = None
    /\ ~Took(r.trace, "commit")

Recasings(msg) == [DOMAIN msg -> BOOLEAN]
Recased(msg, cases) == [i \in DOMAIN msg |-> Phrase(msg[i].kw, cases[i])]

(* some phrase of the text is a keyword of the table, in whatever case *)
Mentions(msg, table) == \E i \in DOMAIN msg : msg[i].kw \in table

(* C17: the class of an exception text is one of AuthInvalid,              *)
(* ValidButLimited, Unreachable and UnknownFailure, decided by the keywords *)
(* the text holds whatever their letter case: "401 Unauthorized" is         *)
(* AuthInvalid, "Rate limit exceeded, 429" ValidButLimited, "Connection     *)
(* refused" Unreachable, a text without keywords UnknownFailure, and no     *)
(* change of letter case changes the class.                                 *)
C17_ClassificationCaseInsensitive ==
    (resp.op = "register" /\ ~resp.remote[1].outcome.ok)
        => LET e == resp.remote[1].outcome.msg
           IN  /\ ErrorClass(e) \in
                    {"AuthInvalid", "ValidButLimited", "Unreachable", "UnknownFailure"}
               /\ \A cases \in Recasings(e) : ErrorClass(Recased(e, cases)) = ErrorClass(e)
               /\ ErrorClass(e) = "AuthInvalid" <=> Mentions(e, AuthKeywords)
               /\ ErrorClass(e) = "UnknownFailure"
                    <=> ~Mentions(e, AuthKeywords \cup LimitKeywords \cup ConnectionKeywords)
               /\ e = <<Phrase("401", TRUE), Phrase("unauthorized", FALSE)>>
                    => ErrorClass(e) = "AuthInvalid"
               /\ e = <<Phrase("rate limit", FALSE), Phrase("429", TRUE)>>
                    => ErrorClass(e) = "ValidButLimited"
               /\ e = <<Phrase("connection refused", FALSE)>>
                    => ErrorClass(e) = "Unreachable"

C17_Witness ==
    /\ resp.op = "register"
    /\ resp.remote[1].outcome.msg = <<Phrase("connection refused", FALSE)>>
    /\ ErrorClass(resp.remote[1].outcome.msg) = "Unreachable"
    /\ resp.status = HTTP_400_BAD_REQUEST

(* the credentials a Bearer header may carry *)
Credentials == Keys \cup {"garbage"}

(* C18: in get_current_user an unexpected fault while the accounts are     *)
(* loaded or scanned answers 500 "Internal server error during             *)
(* authentication.", and a scan that ends without a match answers 401      *)
(* "Could not validate credentials"; a fault never answers 401 and a       *)
(* missing match never answers 500.                                        *)
C18_FaultIs500NoMatchIs401 ==
    /\ \A k \in Credentials :
          /\ get_current_user(BearerHeader(k), users, TRUE) =
               [status |-> HTTP_500_INTERNAL_SERVER_ERROR,
                detail |-> "Internal server error during authentication.", id |-> 0]
          /\ IssuedTo(k) = {}
               => get_current_user(BearerHeader(k), users, FALSE) =
                    [status |-> HTTP_401_UNAUTHORIZED,
                     detail |-> "Could not validate credentials", id |-> 0]
          /\ IssuedTo(k) # {}
               => get_current_user(BearerHeader(k), users, FALSE).status = HTTP_200_OK
    /\ (resp.op \in {"fit", "predict"} /\ resp.status = HTTP_401_UNAUTHORIZED)
          => /\ request.header.scheme = "Bearer"
             /\ IssuedTo(request.header.credentials) = {}
             /\ resp.detail = <<"Could not validate credentials">>
             /\ resp.caller = 0
    /\ (resp.op \in {"fit", "predict"} /\ AuthStorageFault)
          => /\ request.header.scheme = "Bearer"
             /\ resp.detail = <<"Internal server error during authentication.">>
             /\ resp.remote = <<>>

C18_Witness ==
    /\ resp.op = "predict"
    /\ AuthStorageFault
    /\ users # <<>>
    /\ request.header.scheme = "Bearer"
    /\ IssuedTo(request.header.credentials) = {}

(* the accounts with every stored token encrypted under the cipher key k *)
Reencrypted(db_users, k) ==
    [i \in 1..Len(db_users) |->
        [db_users[i] EXCEPT !.encrypted_tabpfn_token.key = k]]

ProtectedOps == {"fit", "predict", "list", "fit_upload", "predict_upload"}

PredictHandled ==
    /\ request.op \in {"predict", "predict_upload"}
    /\ resp.op = request.op
    /\ resp.caller # 0
    /\ request.body # <<>>
    /\ resp.status # HTTP_422_UNPROCESSABLE_ENTITY

(* C21: an authenticated predict, with a JSON body or an uploaded file,     *)
(* whose model_id is not a well-formed UUID answers 400 "Invalid model ID   *)
(* format", and the model service is not invoked: no remote call is made.   *)
C21_BadModelIdIs400 ==
    (PredictHandled /\ ~IsUUID(request.model_id))
        => /\ resp.status = HTTP_400_BAD_REQUEST
           /\ resp.detail = <<"Invalid model ID format">>
           /\ resp.remote = <<>>

RowsOf(id) == {i \in 1..Len(models) : models[i].user_id = id}

(* C23: a listing answered to account A holds exactly the rows whose       *)
(* user_id is A, each once: every row A trained is in it and no row of     *)
(* another account is, whatever the order in which the accounts trained.   *)
C23_ListIsOwnRows ==
    (resp.op = "list" /\ resp.status = HTTP_200_OK)
        => /\ resp.caller # 0
           /\ Len(resp.models) = Cardinality(RowsOf(resp.caller))
           /\ {resp.models[j].internal_model_id : j \in DOMAIN resp.models} =
                {models[i].internal_model_id : i \in RowsOf(resp.caller)}
           /\ \A j \in DOMAIN resp.models :
                 \E i \in RowsOf(resp.caller) :
                    resp.models[j] = UserModelMetadataItem(models[i])

C23_Witness ==
    /\ resp.op = "list"
    /\ resp.status = HTTP_200_OK
    /\ Len(models) = 2
    /\ models[1].user_id # models[2].user_id
    /\ Len(resp.models) = 1
    /\ resp.caller = models[2].user_id

(* C24: with a SECRET_KEY shorter than 32 bytes the import of              *)
(* core/security.py fails and the process never serves: no request is      *)
(* processed and no cipher exists under such a secret.  With 32 bytes or   *)
(* more the process starts and its cipher key is a function of SECRET_KEY  *)
(* alone, its first 32 bytes.                                              *)
C24_ShortSecretNeverServes ==
    /\ SECRET_KEY.len < FernetKeyBytes
          => /\ proc \in {"down", "crashed"}
             /\ fernet = None
             /\ request.op = "none"
             /\ resp.op = "none"
    /\ proc = "crashed" => SECRET_KEY.len < FernetKeyBytes
    /\ proc = "up"
          => /\ fernet = SECRET_KEY.head
             /\ fernet = _get_fernet_key(SECRET_KEY).key
    /\ resp.op # "none" => (proc = "up" /\ SECRET_KEY.len >= FernetKeyBytes)

C24_Witness ==
    /\ proc = "crashed"
    /\ SECRET_KEY.len < FernetKeyBytes
    /\ users # <<>>
    /\ resp.op = "none"

(* the token account `id` registered *)
TokenOf(id) == users[id].encrypted_tabpfn_token.plaintext

Times(trace, name) == Len(SelectSeq(trace, LAMBDA step : step = name))

(* the place of the first occurrence of a step in a trace, 0 for none *)
Place(trace, name) ==
    IF Took(trace, name)
    THEN CHOOSE i \in DOMAIN trace :
            trace[i] = name /\ \A j \in 1..(i - 1) : trace[j] # name
    ELSE 0

(* what a register request did, in order: the steps of setup_user, then    *)
(* what get_db did as the request left it                                  *)
Course(r, s) == r.trace \o s

(* C26: a registration commits at most once and a successful one exactly   *)
(* once; the commit comes after hash, encrypt and add, in that order; a     *)
(* registration that fails with no commit completed has a rollback before   *)
(* the exception leaves the request; and every stored account carries a     *)
(* hash that verifies its key and a ciphertext.                             *)
C26_OneCommitAfterStaging ==
    /\ resp.op = "register"
          => /\ Times(resp.trace, "commit") <= 1
             /\ resp.status = HTTP_201_CREATED => Times(resp.trace, "commit") = 1
             /\ Took(resp.trace, "commit")
                   => /\ 0 < Place(resp.trace, "hash")
                      /\ Place(resp.trace, "hash") < Place(resp.trace, "encrypt")
                      /\ Place(resp.trace, "encrypt") < Place(resp.trace, "add")
                      /\ Place(resp.trace, "add") < Place(resp.trace, "commit")
             /\ (Raised(resp) /\ ~Took(resp.trace, "commit"))
                   => /\ Took(Course(resp, session), "rollback")
                      /\ Place(Course(resp, session), "rollback")
                            < Place(Course(resp, session), "raise")
    /\ \A i \in 1..Len(users) :
          /\ \E k \in Keys : verify_api_key(k, users[i].hashed_api_key)
          /\ users[i].encrypted_tabpfn_token.plaintext \in Tokens

C26_Witness ==
    /\ resp.op = "register"
    /\ Raised(resp)
    /\ Took(resp.trace, "add")
    /\ ~Took(resp.trace, "commit")
    /\ Took(session, "rollback")
    /\ Len(users) > 0

(* the request was answered without get_db being solved: the route has no  *)
(* storage dependency, or bearer_scheme refused the request of the list     *)
(* route before get_db                                                      *)
NoStorageDependency(r) ==
    \/ r.op = "available"
    \/ r.op = "list" /\ r.status = HTTP_403_FORBIDDEN

(* the session was opened once and closed once, after everything else done  *)
(* with it and before the exception, if any, goes on                         *)
Released(s) ==
    /\ Times(s, "open") = 1
    /\ Times(s, "close") = 1
    /\ s[1] = "open"
    /\ \A i \in DOMAIN s : s[i] = "rollback" => i < Place(s, "close")
    /\ \A i \in DOMAIN s : s[i] = "raise" => i > Place(s, "close")

(* C27 as stated: every request acquires exactly one storage session and    *)
(* releases it.                                                             *)
C27_EveryRequestOneSession ==
    resp.op # "none" => Released(session)

(* C27: every request whose route solves get_db acquires exactly one        *)
(* storage session; on normal completion the session is closed, and when    *)
(* the request raises it is rolled back, closed and the exception goes on;  *)
(* a request answered without get_db acquires no session; no finished       *)
(* request holds an open session.                                           *)
C27_SessionReleasedOnEveryExit ==
    resp.op # "none"
        => IF NoStorageDependency(resp)
           THEN session = <<>>
           ELSE /\ Released(session)
                /\ Raised(resp) => /\ Times(session, "rollback") = 1
                                   /\ Times(session, "raise") = 1
                /\ ~Raised(resp) => session = <<"open", "close">>

C27_Witness ==
    /\ resp.op = "fit"
    /\ resp.caller # 0
    /\ Raised(resp)
    /\ resp.remote # <<>>
    /\ session = <<"open", "rollback", "close", "raise">>

(* the rows of `before` are the first rows of `after`, as they were *)
Kept(before, after) ==
    /\ Len(before) <= Len(after)
    /\ SubSeq(after, 1, Len(before)) = before

(* at most one row was added to `before`, and none changed *)
AddedOne(before, after) ==
    /\ Kept(before, after)
    /\ Len(after) <= Len(before) + 1

(* C28: no step changes or removes a stored account or model record: every *)
(* row keeps the values it was created with.  A predict, list or           *)
(* list-available request, and every request the dependency refuses,       *)
(* leaves both tables as they were; a register request leaves the models   *)
(* alone and adds at most one account; a fit request leaves the accounts   *)
(* alone and adds at most one record, the one whose id it returns.         *)
C28_RowsOnlyAdded ==
    [][/\ Kept(users, users')
       /\ Kept(models, models')
       /\ request'.op \in {"predict", "predict_upload", "list", "available"}
             => users' = users /\ models' = models
       /\ (resp'.caller = 0 /\ request'.op # "register")
             => users' = users /\ models' = models
       /\ request'.op = "register"
             => models' = models /\ AddedOne(users, users')
       /\ request'.op \in {"fit", "fit_upload"}
             => /\ users' = users
                /\ AddedOne(models, models')
                /\ models' # models
                      => /\ models'[Len(models')].internal_model_id
                              = resp'.internal_model_id
                         /\ models'[Len(models')].user_id = resp'.caller]_vars

C28_Witness ==
    /\ Len(users) = MaxUsers
    /\ Len(models) > 0
    /\ Handled("predict")
    /\ resp.status = HTTP_200_OK
    /\ Requested # 0
    /\ models[Requested].user_id = resp.caller

(* the registrations between db.add and the end of db.commit *)
Staged == {t \in 1..MaxTasks : tasks[t].pc = "staged"}

(* C29: with registrations interleaved at their commit, several of them    *)
(* with the same third-party token: a registration that succeeds adds one  *)
(* account of its own and returns a key no earlier account has; the key    *)
(* resolves to that account and every earlier key to the account it        *)
(* resolved to before; no key resolves to two accounts; and an account     *)
(* whose registration has not committed is seen by no request: its key     *)
(* does not resolve and no response names it as caller.                    *)
C29_ConcurrentRegistersDistinct ==
    /\ [][((\E t \in Staged : tasks'[t].pc = "idle") /\ resp'.status = HTTP_201_CREATED)
            => /\ Len(users') = Len(users) + 1
               /\ Kept(users, users')
               /\ matched_user(users, resp'.api_key) = 0
               /\ matched_user(users', resp'.api_key) = Len(users')
               /\ decrypt_token(users'[Len(users')].encrypted_tabpfn_token, fernet).value
                     = request'.token
               /\ \A k \in Keys :
                     matched_user(users, k) # 0
                        => matched_user(users', k) = matched_user(users, k)]_vars
    /\ [](/\ \A k \in Keys : Cardinality(IssuedTo(k)) <= 1
          /\ \A i, j \in 1..Len(users) : users[i].id = users[j].id => i = j
          /\ \A t \in Staged :
                /\ matched_user(users, tasks[t].body[1].plain_api_key) = 0
                /\ (resp.op = "list"
                       /\ request.header.credentials = tasks[t].body[1].plain_api_key)
                      => /\ resp.caller = 0
                         /\ resp.status \in {HTTP_401_UNAUTHORIZED,
                                             HTTP_500_INTERNAL_SERVER_ERROR}
          /\ resp.caller # 0 => resp.caller \in 1..Len(users))

C29_Witness ==
    /\ Len(users) = 2
    /\ users[1].encrypted_tabpfn_token = users[2].encrypted_tabpfn_token
    /\ request.op = "register"
    /\ resp.status = HTTP_201_CREATED
    /\ resp.api_key = KeyOrder[1]
    /\ matched_user(users, resp.api_key) = 2
    /\ Staged = {}

(* the exception get_api_usage raised in the registration last answered *)
Raised_in_verify == resp.remote[1].outcome.msg

(* C30: a message with keywords of several tables is classified by the     *)
(* first table in the order auth, limit, connection.  With an auth and a   *)
(* limit keyword the token does not verify and the registration answers    *)
(* 400 after the verification alone; with a limit and a connection keyword *)
(* and no auth keyword the token verifies and the registration goes on;    *)
(* with an auth and a connection keyword the class is AuthInvalid.         *)
C30_KeywordPrecedence ==
    (resp.op = "register" /\ ~resp.remote[1].outcome.ok)
        => /\ (Mentions(Raised_in_verify, AuthKeywords) /\ Mentions(Raised_in_verify, LimitKeywords))
                 => /\ ErrorClass(Raised_in_verify) = "AuthInvalid"
                    /\ ~verify_tabpfn_token(resp.remote[1].outcome)
                    /\ resp.status = HTTP_400_BAD_REQUEST
                    /\ resp.trace = <<"verify">>
           /\ (Mentions(Raised_in_verify, AuthKeywords)
                 /\ Mentions(Raised_in_verify, ConnectionKeywords))
                 => /\ ErrorClass(Raised_in_verify) = "AuthInvalid"
                    /\ resp.status = HTTP_400_BAD_REQUEST
           /\ (Mentions(Raised_in_verify, LimitKeywords)
                 /\ Mentions(Raised_in_verify, ConnectionKeywords)
                 /\ ~Mentions(Raised_in_verify, AuthKeywords))
                 => /\ ErrorClass(Raised_in_verify) = "ValidButLimited"
                    /\ verify_tabpfn_token(resp.remote[1].outcome)
                    /\ Len(resp.trace) > 1
                    /\ resp.status # HTTP_400_BAD_REQUEST
           /\ (Mentions(Raised_in_verify, ConnectionKeywords)
                 /\ ~Mentions(Raised_in_verify, AuthKeywords \cup LimitKeywords))
                 => ErrorClass(Raised_in_verify) = "Unreachable"

C30_Witness ==
    /\ resp.op = "register"
    /\ ~resp.remote[1].outcome.ok
    /\ Raised_in_verify = <<Phrase("429", TRUE), Phrase("timeout", FALSE)>>
    /\ resp.status = HTTP_201_CREATED
    /\ Len(users) = 1

====
